---- MODULE Spec2Model ----
(***************************************************************************)
(* Model of teslacamblackbox/sei_extractor.py: the MP4 atom locator        *)
(* (find_mdat), the NAL demultiplexer (iter_nals), the payload recoverer   *)
(* (extract_proto_payload, strip_emulation_prevention_bytes) and the       *)
(* record emitter (iter_sei_messages, main).                               *)
(*                                                                         *)
(* A stream is a sequence of bytes (0..255); pos is the file cursor, which *)
(* may lie beyond the end of the stream after a relative seek.  Python     *)
(* integers are unbounded, so no width is modelled; the inputs keep the    *)
(* high bytes of every size field zero.                                    *)
(***************************************************************************)
EXTENDS Integers, Sequences, FiniteSets, TLC

VARIABLES
    stream,       \* the bytes of the file opened by main
    pos,          \* fp's cursor
    pc,           \* position of the control flow
    err,          \* message of the RuntimeError raised by find_mdat, or ""
    size32,       \* find_mdat: 32-bit size field of the current atom
    atom_type,    \* find_mdat: 4-byte tag of the current atom
    atom_size,    \* find_mdat: declared size of the current atom
    header_size,  \* find_mdat: 8 or 16
    offset,       \* (offset, size) returned by find_mdat / passed to iter_nals
    size,
    consumed,     \* iter_nals: running byte counter
    nal_size,     \* iter_nals: declared length of the current unit
    first_two,    \* iter_nals: the two marker bytes just read
    nal,          \* the buffer yielded by iter_nals / given to extract_proto_payload
    yielded,      \* every buffer yielded by iter_nals so far, in order
    payload,      \* iter_sei_messages: result of extract_proto_payload
    records,      \* every record yielded by iter_sei_messages so far, in order
    has_sei,      \* main: has_sei
    out,          \* main: the lines printed so far
    data,         \* strip_emulation_prevention_bytes: its argument
    idx,          \* strip_emulation_prevention_bytes: bytes of data processed
    stripped,     \* strip_emulation_prevention_bytes: the output so far
    zero_count    \* strip_emulation_prevention_bytes: zero_count

vars == <<stream, pos, pc, err, size32, atom_type, atom_size, header_size,
          offset, size, consumed, nal_size, first_two, nal, yielded,
          payload, records, has_sei, out, data, idx, stripped, zero_count>>

locatorVars == <<size32, atom_type, atom_size, header_size>>
demuxVars   == <<consumed, nal_size, first_two, nal, yielded>>
emitVars    == <<payload, records, has_sei, out>>
stripVars   == <<data, idx, stripped, zero_count>>

----------------------------------------------------------------------------
(* Bounds of the inputs *)

MaxAtoms == 2      \* atoms in a container of the locator's inputs
MaxUnits == 2      \* NAL units in a media-data region
MaxCut == 6        \* bytes a truncation removes from the end of a stream
MaxLen == 8        \* length of a de-stuffing input
MaxNalLen == 7     \* length of a payload-extraction input

----------------------------------------------------------------------------
(* Byte-level helpers *)

Min(a, b) == IF a < b THEN a ELSE b

\* struct.unpack(">I", b)[0] and struct.unpack(">Q", b)[0]: big-endian value
RECURSIVE BigEndian(_)
BigEndian(b) ==
    IF Len(b) = 0 THEN 0
    ELSE 256 * BigEndian(SubSeq(b, 1, Len(b) - 1)) + b[Len(b)]

\* fp.read(n) at cursor p: the bytes available, at most n of them
ReadAt(s, p, n) == SubSeq(s, p + 1, Min(p + n, Len(s)))

MDAT == <<109, 100, 97, 116>>     \* b"mdat"

----------------------------------------------------------------------------
(* find_mdat *)

\* line 148: payload_size = atom_size - header_size if atom_size else 0
PayloadSize(a, h) == IF a # 0 THEN a - h ELSE 0

\* line 152: displacement of fp.seek(atom_size - header_size, 1)
SkipDisplacementWhole(a, h) == a
SkipDisplacement(a, h) == a - h

\* line 132: fp.seek(0)
FmSeek ==
    /\ pc = "fm_seek"
    /\ pos' = 0
    /\ pc' = "fm_header"
    /\ UNCHANGED <<stream, err, locatorVars, offset, size, demuxVars, emitVars, stripVars>>

\* lines 134-137: header = fp.read(8); short read raises; unpack ">I4s"
FmReadHeader ==
    /\ pc = "fm_header"
    /\ LET header == ReadAt(stream, pos, 8) IN
        /\ pos' = pos + Len(header)
        /\ IF Len(header) < 8
           THEN /\ pc' = "fm_error"
                /\ err' = "mdat atom not found"
                /\ UNCHANGED <<size32, atom_type>>
           ELSE /\ pc' = "fm_size"
                /\ size32' = BigEndian(SubSeq(header, 1, 4))
                /\ atom_type' = SubSeq(header, 5, 8)
                /\ UNCHANGED err
    /\ UNCHANGED <<stream, atom_size, header_size, offset, size, demuxVars, emitVars, stripVars>>

\* lines 138-143: size32 == 1, the 64-bit size follows
FmReadLarge ==
    /\ pc = "fm_size"
    /\ size32 = 1
    /\ LET large == ReadAt(stream, pos, 8) IN
        /\ pos' = pos + Len(large)
        /\ IF Len(large) # 8
           THEN /\ pc' = "fm_error"
                /\ err' = "truncated extended atom size"
                /\ UNCHANGED <<atom_size, header_size>>
           ELSE /\ pc' = "fm_type"
                /\ atom_size' = BigEndian(large)
                /\ header_size' = 16
                /\ UNCHANGED err
    /\ UNCHANGED <<stream, size32, atom_type, offset, size, demuxVars, emitVars, stripVars>>

\* lines 144-146: the 32-bit size is the atom size
FmSmallSize ==
    /\ pc = "fm_size"
    /\ size32 # 1
    /\ atom_size' = (IF size32 # 0 THEN size32 ELSE 0)
    /\ header_size' = 8
    /\ pc' = "fm_type"
    /\ UNCHANGED <<stream, pos, err, size32, atom_type, offset, size, demuxVars, emitVars, stripVars>>

\* line 149: the offset returned is fp.tell(), the cursor behind the header
ReturnedOffsetAtomStart(p, h) == p - h
ReturnedOffset(p, h) == p

\* lines 147-149: the first mdat atom: return fp.tell(), payload_size
FmReturn ==
    /\ pc = "fm_type"
    /\ atom_type = MDAT
    /\ offset' = ReturnedOffset(pos, header_size)
    /\ size' = PayloadSize(atom_size, header_size)
    /\ pc' = "fm_returned"
    /\ UNCHANGED <<stream, pos, err, locatorVars, demuxVars, emitVars, stripVars>>

\* lines 150-151: another atom whose size is below its header size
FmInvalid ==
    /\ pc = "fm_type"
    /\ atom_type # MDAT
    /\ atom_size < header_size
    /\ pc' = "fm_error"
    /\ err' = "invalid MP4 atom size"
    /\ UNCHANGED <<stream, pos, locatorVars, offset, size, demuxVars, emitVars, stripVars>>

\* line 152: skip the rest of the atom
FmSkipUnchecked ==
    /\ pc = "fm_type"
    /\ atom_type # MDAT
    /\ pos' = pos + SkipDisplacement(atom_size, header_size)
    /\ pc' = "fm_header"
    /\ UNCHANGED <<stream, err, locatorVars, offset, size, demuxVars, emitVars, stripVars>>
FmSkip ==
    /\ pc = "fm_type"
    /\ atom_type # MDAT
    /\ atom_size >= header_size
    /\ pos' = pos + SkipDisplacement(atom_size, header_size)
    /\ pc' = "fm_header"
    /\ UNCHANGED <<stream, err, locatorVars, offset, size, demuxVars, emitVars, stripVars>>

----------------------------------------------------------------------------
(* strip_emulation_prevention_bytes *)

\* lines 88-92: one iteration of the loop over data, on the pair
\* (stripped, zero_count)
StripStepNoReset(st, byte) ==
    IF st.zero_count >= 2 /\ byte = 3
    THEN [stripped |-> st.stripped, zero_count |-> st.zero_count]
    ELSE [stripped |-> Append(st.stripped, byte),
          zero_count |-> IF byte # 0 THEN 0 ELSE st.zero_count + 1]
StripStepNoClear(st, byte) ==
    IF st.zero_count >= 2 /\ byte = 3
    THEN [stripped |-> st.stripped, zero_count |-> 0]
    ELSE [stripped |-> Append(st.stripped, byte),
          zero_count |-> IF byte # 0 THEN st.zero_count ELSE st.zero_count + 1]
StripStepOneZero(st, byte) ==
    IF st.zero_count >= 1 /\ byte = 3
    THEN [stripped |-> st.stripped, zero_count |-> 0]
    ELSE [stripped |-> Append(st.stripped, byte),
          zero_count |-> IF byte # 0 THEN 0 ELSE st.zero_count + 1]
StripStep(st, byte) ==
    IF st.zero_count >= 2 /\ byte = 3
    THEN [stripped |-> st.stripped, zero_count |-> 0]
    ELSE [stripped |-> Append(st.stripped, byte),
          zero_count |-> IF byte # 0 THEN 0 ELSE st.zero_count + 1]

RECURSIVE StripFrom(_, _)
StripFrom(st, d) ==
    IF d = <<>> THEN st ELSE StripFrom(StripStep(st, Head(d)), Tail(d))

\* lines 83-93: the function as a whole
StripEmulationPreventionBytes(d) ==
    StripFrom([stripped |-> <<>>, zero_count |-> 0], d).stripped

\* lines 85-86: stripped = bytearray(); zero_count = 0
StripBegin ==
    /\ pc = "strip_call"
    /\ stripped' = <<>>
    /\ zero_count' = 0
    /\ idx' = 0
    /\ pc' = "strip_loop"
    /\ UNCHANGED <<stream, pos, err, locatorVars, offset, size, demuxVars, emitVars, data>>

\* lines 87-92: for byte in data
StripByte ==
    /\ pc = "strip_loop"
    /\ idx < Len(data)
    /\ LET st == StripStep([stripped |-> stripped, zero_count |-> zero_count], data[idx + 1]) IN
        /\ stripped' = st.stripped
        /\ zero_count' = st.zero_count
    /\ idx' = idx + 1
    /\ UNCHANGED <<stream, pos, pc, err, locatorVars, offset, size, demuxVars, emitVars, data>>

\* line 93: return bytes(stripped)
StripReturn ==
    /\ pc = "strip_loop"
    /\ idx = Len(data)
    /\ pc' = "strip_done"
    /\ UNCHANGED <<stream, pos, err, locatorVars, offset, size, demuxVars, emitVars, stripVars>>

----------------------------------------------------------------------------
(* extract_proto_payload *)

\* Optional[bytes]: None, or the bytes returned
None == [some |-> FALSE, bytes |-> <<>>]
Some(b) == [some |-> TRUE, bytes |-> b]

\* line 71: first index of range(3, len(nal) - 1)
ScanStartTwo == 3 - 1
ScanStart == 3

\* lines 71-80: the loop from (0-based) index i on
RECURSIVE ScanFrom(_, _)
ScanFrom(n, i) ==
    IF i >= Len(n) - 1 THEN None
    ELSE LET byte == n[i + 1] IN
         IF byte = 66 THEN ScanFrom(n, i + 1)
         ELSE IF byte = 105
              THEN IF i > 2
                   THEN Some(StripEmulationPreventionBytes(SubSeq(n, i + 2, Len(n) - 1)))
                   ELSE None
              ELSE None

\* lines 67-80 (iter_nals only passes bytes objects, so isinstance holds)
ExtractProtoPayload(n) ==
    IF Len(n) < 2 THEN None ELSE ScanFrom(n, ScanStart)

\* a call of extract_proto_payload(nal) on its own
ExtractCall ==
    /\ pc = "ex_call"
    /\ payload' = ExtractProtoPayload(nal)
    /\ pc' = "ex_done"
    /\ UNCHANGED <<stream, pos, err, locatorVars, offset, size, demuxVars, records, has_sei, out, stripVars>>

----------------------------------------------------------------------------
(* iter_nals *)

\* line 117: the unit is an SEI unit (type 6) of user-data-unregistered
\* payload type (5)
IsSeiUserDataTypeOnly(ft) == (ft[1] % 32) = 6
IsSeiUserData(ft) == ~((ft[1] % 32) # 6 \/ ft[2] # 5)

\* line 118: displacement of fp.seek(nal_size - 2, 1)
SkipRestWhole(n) == n
SkipRest(n) == n - 2

\* line 123: the rest of the unit was read in full
RestCompleteAlways(rest, n) == TRUE
RestComplete(rest, n) == ~(Len(rest) # n - 2)

\* lines 101-102: fp.seek(offset); consumed = 0
NalSeek ==
    /\ pc = "nal_seek"
    /\ pos' = offset
    /\ consumed' = 0
    /\ pc' = "nal_head"
    /\ UNCHANGED <<stream, err, locatorVars, offset, size, nal_size, first_two, nal, yielded, emitVars, stripVars>>

\* lines 103-107: loop test, header = fp.read(4), short read ends the loop
NalHead ==
    /\ pc = "nal_head"
    /\ IF ~(size = 0 \/ consumed < size)
       THEN /\ pc' = "nal_end"
            /\ UNCHANGED <<pos, nal_size>>
       ELSE LET header == ReadAt(stream, pos, 4) IN
            /\ pos' = pos + Len(header)
            /\ IF Len(header) < 4
               THEN /\ pc' = "nal_end"
                    /\ UNCHANGED nal_size
               ELSE /\ pc' = "nal_sized"
                    /\ nal_size' = BigEndian(header)
    /\ UNCHANGED <<stream, err, locatorVars, offset, size, consumed, first_two, nal, yielded, emitVars, stripVars>>

\* line 110: what a degenerate unit adds to consumed
DegenerateSpanNoPrefix(n) == n
DegenerateSpan(n) == 4 + n

\* lines 108-111: degenerate unit
NalDegenerate ==
    /\ pc = "nal_sized"
    /\ nal_size < 2
    /\ pos' = pos + nal_size
    /\ consumed' = consumed + DegenerateSpan(nal_size)
    /\ pc' = "nal_head"
    /\ UNCHANGED <<stream, err, locatorVars, offset, size, nal_size, first_two, nal, yielded, emitVars, stripVars>>

\* lines 113-115: first_two = fp.read(2), short read ends the loop
NalReadTwo ==
    /\ pc = "nal_sized"
    /\ nal_size >= 2
    /\ LET ft == ReadAt(stream, pos, 2) IN
        /\ pos' = pos + Len(ft)
        /\ first_two' = ft
        /\ pc' = IF Len(ft) # 2 THEN "nal_end" ELSE "nal_marked"
    /\ UNCHANGED <<stream, err, locatorVars, offset, size, consumed, nal_size, nal, yielded, emitVars, stripVars>>

\* lines 117-120: skip non-SEI NALs
NalSkip ==
    /\ pc = "nal_marked"
    /\ ~IsSeiUserData(first_two)
    /\ pos' = pos + SkipRest(nal_size)
    /\ consumed' = consumed + 4 + nal_size
    /\ pc' = "nal_head"
    /\ UNCHANGED <<stream, err, locatorVars, offset, size, nal_size, first_two, nal, yielded, emitVars, stripVars>>

\* lines 122-127: read the rest, short read ends the loop, else yield
NalYield ==
    /\ pc = "nal_marked"
    /\ IsSeiUserData(first_two)
    /\ LET rest == ReadAt(stream, pos, nal_size - 2) IN
        /\ pos' = pos + Len(rest)
        /\ IF ~RestComplete(rest, nal_size)
           THEN /\ pc' = "nal_end"
                /\ UNCHANGED <<consumed, nal, yielded>>
           ELSE /\ nal' = first_two \o rest
                /\ consumed' = consumed + 4 + nal_size
                /\ yielded' = Append(yielded, first_two \o rest)
                /\ pc' = "nal_yielded"
    /\ UNCHANGED <<stream, err, locatorVars, offset, size, nal_size, first_two, emitVars, stripVars>>

\* the consumer of the generator asks for the next unit: the loop goes on
\* after the yield of line 127
NalResume ==
    /\ pc = "nal_yielded"
    /\ pc' = "nal_head"
    /\ UNCHANGED <<stream, pos, err, locatorVars, offset, size, demuxVars, emitVars, stripVars>>

----------------------------------------------------------------------------
(* iter_sei_messages *)

\* line 57: not payload (None or an empty bytes object)
NotPayload(p) == ~p.some \/ Len(p.bytes) = 0

\* line 56: payload = extract_proto_payload(nal)
SeiExtract ==
    /\ pc = "nal_yielded"
    /\ payload' = ExtractProtoPayload(nal)
    /\ pc' = "sei_check"
    /\ UNCHANGED <<stream, pos, err, locatorVars, offset, size, demuxVars, records, has_sei, out, stripVars>>

\* lines 57-58: if not payload: continue
SeiSkip ==
    /\ pc = "sei_check"
    /\ NotPayload(payload)
    /\ pc' = "nal_head"
    /\ UNCHANGED <<stream, pos, err, locatorVars, offset, size, demuxVars, emitVars, stripVars>>

\* lines 59-61: meta = SeiMetadata(); meta.ParseFromString(payload) is called
SeiHandOver ==
    /\ pc = "sei_check"
    /\ ~NotPayload(payload)
    /\ pc' = "sei_parse"
    /\ UNCHANGED <<stream, pos, err, locatorVars, offset, size, demuxVars, emitVars, stripVars>>

\* lines 62-63: the deserializer rejects the payload: except DecodeError: continue
SeiDecodeError ==
    /\ pc = "sei_parse"
    /\ pc' = "nal_head"
    /\ UNCHANGED <<stream, pos, err, locatorVars, offset, size, demuxVars, emitVars, stripVars>>

\* line 64: the deserializer accepts the payload: yield meta
SeiYield ==
    /\ pc = "sei_parse"
    /\ records' = Append(records, payload.bytes)
    /\ pc' = "main_row"
    /\ UNCHANGED <<stream, pos, err, locatorVars, offset, size, demuxVars, payload, has_sei, out, stripVars>>

----------------------------------------------------------------------------
(* main *)

Line(k, r) == [kind |-> k, rec |-> r]

\* lines 39-41: the header line, printed before the first row only
HeaderLinesAlways(h) == <<Line("header", <<>>)>>
HeaderLines(h) == IF ~h THEN <<Line("header", <<>>)>> ELSE <<>>

\* lines 35-38: offset, size = find_mdat(fp); the loop over
\* iter_sei_messages(fp, offset, size) starts
MainIterate ==
    /\ pc = "fm_returned"
    /\ pc' = "nal_seek"
    /\ UNCHANGED <<stream, pos, err, locatorVars, offset, size, demuxVars, emitVars, stripVars>>

\* lines 39-45: one record of the loop: header if first, then the row
MainRow ==
    /\ pc = "main_row"
    /\ out' = out \o HeaderLines(has_sei) \o <<Line("row", records[Len(records)])>>
    /\ has_sei' = TRUE
    /\ pc' = "nal_head"
    /\ UNCHANGED <<stream, pos, err, locatorVars, offset, size, demuxVars, payload, records, stripVars>>

\* lines 46-50: the sequence is exhausted; the diagnostic if nothing was decoded
MainFinish ==
    /\ pc = "nal_end"
    /\ out' = IF ~has_sei THEN Append(out, Line("diag", <<>>)) ELSE out
    /\ pc' = "main_done"
    /\ UNCHANGED <<stream, pos, err, locatorVars, offset, size, demuxVars, payload, records, has_sei, stripVars>>

----------------------------------------------------------------------------
(* The inputs *)

BoundedSeq(S, n) == UNION {[1..k -> S] : k \in 0..n}

RECURSIVE Flatten(_)
Flatten(ss) == IF ss = <<>> THEN <<>> ELSE Head(ss) \o Flatten(Tail(ss))

U32(n) == <<0, 0, 0, n>>                   \* struct.pack(">I", n), n < 256
U64(n) == <<0, 0, 0, 0, 0, 0, 0, n>>       \* struct.pack(">Q", n), n < 256
Filler(k) == [j \in 1..k |-> 170]
FREE == <<102, 114, 101, 101>>             \* b"free"

\* an atom with an 8-byte or (ext) a 16-byte header declaring size sz,
\* followed by the body that size announces
AtomHeader(ext, sz, tag) == IF ext THEN U32(1) \o tag \o U64(sz) ELSE U32(sz) \o tag
AtomBody(ext, sz) ==
    LET h == IF ext THEN 16 ELSE 8 IN Filler(IF sz > h THEN sz - h ELSE 0)
Atom(ext, sz, tag) == AtomHeader(ext, sz, tag) \o AtomBody(ext, sz)

\* a length-prefixed NAL unit
Unit(body) == U32(Len(body)) \o body

\* the stream without its last c bytes
Cut(s, c) == SubSeq(s, 1, Len(s) - c)
Cuts(s) == {c \in 0..MaxCut : c <= Len(s)}

AtomSizes == {0, 4, 8, 9, 16, 17}
AtomKinds == {Atom(ext, sz, tag) : ext \in BOOLEAN, sz \in AtomSizes, tag \in {MDAT, FREE}}
\* the containers of at most n atoms, whole or truncated
LocateStreams(n) ==
    UNION {{Cut(Flatten(c), k) : k \in Cuts(Flatten(c))} : c \in BoundedSeq(AtomKinds, n)}

DemuxBodies == {<<6, 5>>, <<38, 5, 7>>, <<6, 4>>, <<7, 5, 9>>, <<>>, <<9>>}
DemuxTails == {<<>>, Unit(<<6, 5>>)}
DemuxOffsets == {0, 2}
DemuxSizes(total) == {0, total, total - 1, -4}

MainBodies == {<<6, 5, 0, 105, 1, 128>>, <<6, 5, 0, 66, 105, 2, 128>>, <<6, 5, 0, 105, 128>>,
               <<6, 5, 0, 7, 128>>, <<7, 5>>, <<>>}
MainPrefixes == {<<>>, Atom(FALSE, 9, FREE), Atom(TRUE, 16, FREE), Atom(FALSE, 0, FREE)}
MainTails == {<<>>, Atom(FALSE, 8, FREE)}
MainDeclared(h, total) == {h + total, h + total - 1, 0}
\* the files of at most n units in the media-data atom, whole or without an
\* even number of their last bytes
MainCuts(s) == {k \in Cuts(s) : k % 2 = 0}
MainStreams(n) ==
    UNION {UNION {{Cut(pre \o AtomHeader(ext, sz, MDAT) \o Flatten([j \in DOMAIN bs |-> Unit(bs[j])]) \o tail, k) :
                       k \in MainCuts(Flatten([j \in DOMAIN bs |-> Unit(bs[j])]) \o tail),
                       sz \in MainDeclared(IF ext THEN 16 ELSE 8,
                                           Len(Flatten([j \in DOMAIN bs |-> Unit(bs[j])])))} :
                  pre \in MainPrefixes, ext \in BOOLEAN, tail \in MainTails} :
           bs \in BoundedSeq(MainBodies, n)}

StripBytes == {0, 1, 3}
ExtractBytes == {0, 3, 66, 105}

----------------------------------------------------------------------------
(* Specifications *)

\* main(path): the file is opened and find_mdat is called
Init ==
    /\ stream \in MainStreams(MaxUnits)
    /\ pos = 0 /\ err = ""
    /\ pc = "fm_seek"
    /\ size32 = 0 /\ atom_type = <<>> /\ atom_size = 0 /\ header_size = 0
    /\ offset = 0 /\ size = 0
    /\ consumed = 0 /\ nal_size = 0 /\ first_two = <<>> /\ nal = <<>> /\ yielded = <<>>
    /\ payload = None /\ records = <<>> /\ has_sei = FALSE /\ out = <<>>
    /\ data = <<>> /\ idx = 0 /\ stripped = <<>> /\ zero_count = 0

Next ==
    \/ FmSeek \/ FmReadHeader \/ FmReadLarge \/ FmSmallSize \/ FmReturn \/ FmInvalid \/ FmSkip
    \/ MainIterate
    \/ NalSeek \/ NalHead \/ NalDegenerate \/ NalReadTwo \/ NalSkip \/ NalYield
    \/ SeiExtract \/ SeiSkip \/ SeiHandOver \/ SeiDecodeError \/ SeiYield
    \/ MainRow \/ MainFinish

Spec == Init /\ [][Next]_vars

\* find_mdat(fp) on its own
InitLocate ==
    /\ stream \in LocateStreams(MaxAtoms)
    /\ pos = 0 /\ err = ""
    /\ pc = "fm_seek"
    /\ size32 = 0 /\ atom_type = <<>> /\ atom_size = 0 /\ header_size = 0
    /\ offset = 0 /\ size = 0
    /\ consumed = 0 /\ nal_size = 0 /\ first_two = <<>> /\ nal = <<>> /\ yielded = <<>>
    /\ payload = None /\ records = <<>> /\ has_sei = FALSE /\ out = <<>>
    /\ data = <<>> /\ idx = 0 /\ stripped = <<>> /\ zero_count = 0

NextLocate ==
    FmSeek \/ FmReadHeader \/ FmReadLarge \/ FmSmallSize \/ FmReturn \/ FmInvalid \/ FmSkip

\* main as a sequential program: it takes its next step as long as it has one
SpecLive == Init /\ [][Next]_vars /\ WF_vars(Next)

SpecLocate == InitLocate /\ [][NextLocate]_vars

\* iter_nals(fp, offset, size) on its own, drained by a consumer
InitDemux ==
    /\ \E bs \in BoundedSeq(DemuxBodies, MaxUnits), tail \in DemuxTails, off \in DemuxOffsets :
         LET region == Flatten([j \in DOMAIN bs |-> Unit(bs[j])]) IN
         \E k \in Cuts(region \o tail), sz \in DemuxSizes(Len(region)) :
            /\ stream = Cut(Filler(off) \o region \o tail, k)
            /\ offset = off
            /\ size = sz
    /\ pos = 0 /\ err = ""
    /\ pc = "nal_seek"
    /\ size32 = 0 /\ atom_type = <<>> /\ atom_size = 0 /\ header_size = 0
    /\ consumed = 0 /\ nal_size = 0 /\ first_two = <<>> /\ nal = <<>> /\ yielded = <<>>
    /\ payload = None /\ records = <<>> /\ has_sei = FALSE /\ out = <<>>
    /\ data = <<>> /\ idx = 0 /\ stripped = <<>> /\ zero_count = 0

NextDemux ==
    NalSeek \/ NalHead \/ NalDegenerate \/ NalReadTwo \/ NalSkip \/ NalYield \/ NalResume

SpecDemux == InitDemux /\ [][NextDemux]_vars

\* strip_emulation_prevention_bytes(data) on its own
InitStrip ==
    /\ data \in BoundedSeq(StripBytes, MaxLen)
    /\ pc = "strip_call"
    /\ stream = <<>> /\ pos = 0 /\ err = ""
    /\ size32 = 0 /\ atom_type = <<>> /\ atom_size = 0 /\ header_size = 0
    /\ offset = 0 /\ size = 0
    /\ consumed = 0 /\ nal_size = 0 /\ first_two = <<>> /\ nal = <<>> /\ yielded = <<>>
    /\ payload = None /\ records = <<>> /\ has_sei = FALSE /\ out = <<>>
    /\ idx = 0 /\ stripped = <<>> /\ zero_count = 0

NextStrip == StripBegin \/ StripByte \/ StripReturn

SpecStrip == InitStrip /\ [][NextStrip]_vars

\* extract_proto_payload(nal) on its own
InitExtract ==
    /\ nal \in BoundedSeq(ExtractBytes, MaxNalLen)
    /\ pc = "ex_call"
    /\ stream = <<>> /\ pos = 0 /\ err = ""
    /\ size32 = 0 /\ atom_type = <<>> /\ atom_size = 0 /\ header_size = 0
    /\ offset = 0 /\ size = 0
    /\ consumed = 0 /\ nal_size = 0 /\ first_two = <<>> /\ yielded = <<>>
    /\ payload = None /\ records = <<>> /\ has_sei = FALSE /\ out = <<>>
    /\ data = <<>> /\ idx = 0 /\ stripped = <<>> /\ zero_count = 0

NextExtract == ExtractCall

SpecExtract == InitExtract /\ [][NextExtract]_vars

----------------------------------------------------------------------------
(* The container and the media-data region as the format defines them,     *)
(* independently of the cursor of the scan                                 *)

\* the atom whose header starts at byte p of s
ExtendedAt(s, p) == BigEndian(SubSeq(s, p + 1, p + 4)) = 1
HeaderSizeAt(s, p) == IF ExtendedAt(s, p) THEN 16 ELSE 8
HeaderAt(s, p) == p + 8 <= Len(s) /\ p + HeaderSizeAt(s, p) <= Len(s)
DeclaredSizeAt(s, p) ==
    IF ExtendedAt(s, p) THEN BigEndian(SubSeq(s, p + 9, p + 16))
    ELSE BigEndian(SubSeq(s, p + 1, p + 4))
TagAt(s, p) == SubSeq(s, p + 5, p + 8)

\* start of the first mdat atom of the chain of atoms that starts at p, each
\* atom before it declaring a size >= its header size; -1 if there is no
\* such chain
RECURSIVE MdatStart(_, _)
MdatStart(s, p) ==
    IF ~HeaderAt(s, p) THEN -1
    ELSE IF TagAt(s, p) = MDAT
         THEN IF DeclaredSizeAt(s, p) = 0 \/ DeclaredSizeAt(s, p) >= HeaderSizeAt(s, p)
              THEN p ELSE -1
         ELSE IF DeclaredSizeAt(s, p) < HeaderSizeAt(s, p) THEN -1
              ELSE MdatStart(s, p + DeclaredSizeAt(s, p))

\* the starts of the atoms of the chain from p, up to the first mdat atom or
\* the first atom that cannot be passed
RECURSIVE AtomStarts(_, _)
AtomStarts(s, p) ==
    {p} \cup (IF HeaderAt(s, p) /\ TagAt(s, p) # MDAT
                 /\ DeclaredSizeAt(s, p) >= HeaderSizeAt(s, p)
              THEN AtomStarts(s, p + DeclaredSizeAt(s, p)) ELSE {})

\* some atom of the chain from p, the first mdat atom included, declares a
\* non-zero size below its header size
RECURSIVE SubHeaderOnPath(_, _)
SubHeaderOnPath(s, p) ==
    IF ~HeaderAt(s, p) THEN FALSE
    ELSE IF DeclaredSizeAt(s, p) # 0 /\ DeclaredSizeAt(s, p) < HeaderSizeAt(s, p) THEN TRUE
    ELSE IF TagAt(s, p) = MDAT \/ DeclaredSizeAt(s, p) = 0 THEN FALSE
    ELSE SubHeaderOnPath(s, p + DeclaredSizeAt(s, p))

\* the bodies of the length-prefixed units that lie completely in s[p+1..e],
\* one after the other from p, and the position where that framing stops
RECURSIVE Frame(_, _, _)
Frame(s, p, e) ==
    IF p + 4 > e THEN <<>>
    ELSE LET n == BigEndian(SubSeq(s, p + 1, p + 4)) IN
         IF p + 4 + n > e THEN <<>>
         ELSE <<SubSeq(s, p + 5, p + 4 + n)>> \o Frame(s, p + 4 + n, e)

RECURSIVE FrameEnd(_, _, _)
FrameEnd(s, p, e) ==
    IF p + 4 > e THEN p
    ELSE LET n == BigEndian(SubSeq(s, p + 1, p + 4)) IN
         IF p + 4 + n > e THEN p ELSE FrameEnd(s, p + 4 + n, e)

\* an SEI user-data-unregistered unit
Matching(b) == Len(b) >= 2 /\ b[1] % 32 = 6 /\ b[2] = 5

RegionEnd == IF size = 0 THEN Len(stream) ELSE offset + size

\* the region [offset, RegionEnd) lies in the stream and is a sequence of
\* complete units
WellFormedRegion ==
    /\ size >= 0
    /\ offset <= RegionEnd
    /\ RegionEnd <= Len(stream)
    /\ FrameEnd(stream, offset, RegionEnd) = RegionEnd

\* the stream ends inside the region: before the end a positive size
\* announces, or inside a unit of an unbounded region
TruncatedRegion ==
    /\ size >= 0
    /\ offset <= Len(stream)
    /\ IF size > 0 THEN Len(stream) < offset + size
       ELSE FrameEnd(stream, offset, Len(stream)) < Len(stream)

IsPrefix(a, b) == Len(a) <= Len(b) /\ a = SubSeq(b, 1, Len(a))

----------------------------------------------------------------------------
(* Claims *)

\* C1: on a chain of atoms that each declare a size >= their header size and
\* that ends with the first mdat atom, find_mdat is at the start of an atom of
\* the chain whenever it reads a header (every atom before is passed by
\* exactly its declared size), it raises nothing, and it returns
\* offset = start of the mdat atom + its header size and
\* size = declared size - header size, or 0 when the declared size is 0.
C1_LocatorExact ==
    /\ pc = "fm_header" => pos \in AtomStarts(stream, 0)
    /\ MdatStart(stream, 0) >= 0 =>
         LET m == MdatStart(stream, 0) IN
         /\ pc # "fm_error"
         /\ pc = "fm_returned" =>
              /\ offset = m + HeaderSizeAt(stream, m)
              /\ size = IF DeclaredSizeAt(stream, m) = 0 THEN 0
                        ELSE DeclaredSizeAt(stream, m) - HeaderSizeAt(stream, m)

C1_Witness ==
    /\ pc = "fm_returned"
    /\ MdatStart(stream, 0) >= 17
    /\ header_size = 16
    /\ size > 0

\* C2: find_mdat never returns when an atom it examined, the mdat atom
\* included, declares a non-zero size below its header size; so the payload
\* size it returns is never negative.
C2_SubHeaderSizeRaises ==
    pc = "fm_returned" => (~SubHeaderOnPath(stream, 0) /\ size >= 0)

\* C3: every buffer iter_nals yields passes the marker test (low 5 bits of
\* the first byte = 6, second byte = 5) and is exactly the bytes its 4-byte
\* big-endian length prefix (>= 2) announces.
C3_YieldedAreSei ==
    /\ \A j \in DOMAIN yielded :
          Len(yielded[j]) >= 2 /\ yielded[j][1] % 32 = 6 /\ yielded[j][2] = 5
    /\ pc = "nal_yielded" =>
          /\ nal = yielded[Len(yielded)]
          /\ pos >= offset + 4 + Len(nal)
          /\ BigEndian(SubSeq(stream, pos - Len(nal) - 3, pos - Len(nal))) = Len(nal)
          /\ SubSeq(stream, pos - Len(nal) + 1, pos) = nal

C3_Witness ==
    /\ pc = "nal_yielded"
    /\ Len(yielded) = 2
    /\ Len(nal) = 3
    /\ nal[1] = 38

\* C4: when the region is a sequence of complete units, iter_nals yields the
\* matching units among them, each once and in stream order, whatever
\* degenerate or non-matching units stand before or between them.
C4_AllMatchingYielded ==
    WellFormedRegion =>
        LET expected == SelectSeq(Frame(stream, offset, RegionEnd), Matching) IN
        /\ IsPrefix(yielded, expected)
        /\ pc = "nal_end" => yielded = expected

C4_Witness ==
    /\ pc = "nal_end"
    /\ WellFormedRegion
    /\ size > 0
    /\ Len(Frame(stream, offset, RegionEnd)) = 2
    /\ Len(Frame(stream, offset, RegionEnd)[1]) < 2
    /\ Len(yielded) = 1

\* C5: when the stream ends inside the region, iter_nals raises nothing and
\* yields exactly the matching units that are complete in the stream, then
\* ends; the partial last unit is dropped.
C5_TruncationEndsQuietly ==
    TruncatedRegion =>
        LET expected == SelectSeq(Frame(stream, offset, Len(stream)), Matching) IN
        /\ err = ""
        /\ IsPrefix(yielded, expected)
        /\ pc = "nal_end" => yielded = expected

C5_Witness ==
    /\ pc = "nal_end"
    /\ TruncatedRegion
    /\ Len(yielded) = 1
    /\ LET e == FrameEnd(stream, offset, Len(stream)) IN
         /\ e + 6 <= Len(stream)
         /\ Matching(SubSeq(stream, e + 5, e + 6))


EndsWithTwoZeros(b) == Len(b) >= 2 /\ b[Len(b)] = 0 /\ b[Len(b) - 1] = 0

\* strip_emulation_prevention_bytes is about to process the byte data[idx + 1]
AtStripByte == pc = "strip_loop" /\ idx < Len(data)

\* C6 as stated: a byte 0x03 is dropped exactly when the two bytes most
\* recently copied to the output are both 0x00; every other byte is copied.
C6_OutputOnlyRule ==
    [][AtStripByte =>
         IF data[idx + 1] = 3 /\ EndsWithTwoZeros(stripped)
         THEN stripped' = stripped
         ELSE stripped' = Append(stripped, data[idx + 1])]_vars

\* C6 as amended: a byte 0x03 is dropped exactly when the two bytes most
\* recently copied to the output are both 0x00 and nothing was dropped since
\* they were copied, that is, they are the two input bytes right before it;
\* every other byte is copied, in order.
C6_CounterResetRule ==
    [][AtStripByte =>
         IF /\ data[idx + 1] = 3
            /\ EndsWithTwoZeros(stripped)
            /\ idx >= 2
            /\ data[idx] = 0
            /\ data[idx - 1] = 0
         THEN stripped' = stripped
         ELSE stripped' = Append(stripped, data[idx + 1])]_vars

C6_Witness ==
    /\ pc = "strip_loop"
    /\ idx = 4
    /\ SubSeq(data, 1, 4) = <<0, 0, 3, 3>>
    /\ stripped = <<0, 0, 3>>

\* the input holds no 00 00 03 run
NoStuffedRun(d) ==
    ~\E j \in 1..(Len(d) - 2) : d[j] = 0 /\ d[j + 1] = 0 /\ d[j + 2] = 3

\* C7: on an input without a 00 00 03 run de-stuffing returns the input and
\* de-stuffing the result again changes nothing.
C7_IdempotentOnDestuffed ==
    (pc = "strip_done" /\ NoStuffedRun(data)) =>
        /\ stripped = data
        /\ StripEmulationPreventionBytes(stripped) = stripped

C7_Witness ==
    /\ pc = "strip_done"
    /\ NoStuffedRun(data)
    /\ \E j \in 1..(Len(data) - 3) :
          data[j] = 0 /\ data[j + 1] = 3 /\ data[j + 2] = 0 /\ data[j + 3] = 0

\* the (0-based) indices i with 3 <= i <= len(nal) - 2, nal[i] = 0x69 and
\* nal[j] = 0x42 for all 3 <= j < i
MarkerIndices(n) ==
    {i \in 3..(Len(n) - 2) : n[i + 1] = 105 /\ \A j \in 3..(i - 1) : n[j + 1] = 66}

\* C8: extract_proto_payload returns a payload exactly when such an index
\* exists, and the payload is then the de-stuffed bytes after it and before
\* the last byte; in every other case it returns None.
C8_MarkerScan ==
    pc = "ex_done" =>
        /\ payload.some <=> MarkerIndices(nal) # {}
        /\ payload.some =>
              \E i \in MarkerIndices(nal) :
                 payload.bytes = StripEmulationPreventionBytes(SubSeq(nal, i + 2, Len(nal) - 1))
        /\ ~payload.some => payload = None

C8_Witness ==
    /\ pc = "ex_done"
    /\ payload.some
    /\ nal[3] = 105
    /\ nal[4] = 66
    /\ nal[5] = 105
    /\ Len(payload.bytes) = 1

Rows(recs) == [j \in DOMAIN recs |-> Line("row", recs[j])]

\* C9: once main is past find_mdat, its output is one header line followed by
\* one row per decoded record, in order, and no diagnostic, if a record was
\* decoded; and only the diagnostic, once, at the end, if none was.
C9_OutputOrder ==
    /\ pc = "main_done" =>
          out = IF records # <<>>
                THEN <<Line("header", <<>>)>> \o Rows(records)
                ELSE <<Line("diag", <<>>)>>
    /\ pc # "main_done" =>
          LET printed == IF pc = "main_row" THEN SubSeq(records, 1, Len(records) - 1)
                         ELSE records IN
          out = IF printed # <<>> THEN <<Line("header", <<>>)>> \o Rows(printed) ELSE <<>>

C9_Witness ==
    /\ pc = "main_done"
    /\ Len(records) = 2
    /\ records[1] # records[2]
    /\ Len(out) = 3

\* C10: every payload extract_proto_payload recovers, also an empty one, is
\* handed to the deserializer, and gives a record exactly when the
\* deserializer accepts it.
C10_EveryPayloadParsed ==
    [][/\ (pc = "sei_check" /\ payload.some) => pc' = "sei_parse"
       /\ (pc = "sei_check" /\ ~payload.some) => (pc' = "nal_head" /\ records' = records)
       /\ (pc = "sei_parse" /\ pc' = "main_row") => records' = Append(records, payload.bytes)
       /\ (pc = "sei_parse" /\ pc' # "main_row") => records' = records]_vars

\* C11: a unit of declared length < 2 is skipped without being yielded or
\* handed on, and adds exactly 4 + length to consumed; so does every unit
\* iter_nals finishes (skipped or yielded), and whenever the loop test is
\* reached consumed = stream position - offset.
C11_ConsumedTracksCursor ==
    [][/\ (pc = "nal_sized" /\ nal_size < 2) =>
             /\ consumed' = consumed + 4 + nal_size
             /\ pc' = "nal_head"
             /\ yielded' = yielded
             /\ nal' = nal
       /\ (pc = "nal_marked" /\ pc' \in {"nal_head", "nal_yielded"}) =>
             consumed' = consumed + 4 + nal_size
       /\ pc' = "nal_yielded" => Len(nal') >= 2
       /\ pc' = "nal_head" => consumed' = pos' - offset']_vars

C11_Witness ==
    /\ pc = "nal_head"
    /\ nal_size = 1
    /\ consumed = 11
    /\ pos = offset + 11
    /\ Len(yielded) = 1

\* C12: with size > 0 every unit iter_nals yields lies inside the region
\* [offset, offset + size): no byte behind the media-data atom is returned
\* as NAL data.
C12_YieldedInsideRegion ==
    (pc = "nal_yielded" /\ size > 0) =>
        /\ pos - Len(nal) - 4 >= offset
        /\ pos <= offset + size

\* C13: after find_mdat's seek to 0 no step of find_mdat or iter_nals moves
\* the cursor back: every relative seek has a displacement >= 0 and
\* iter_nals' seek(offset) goes to where find_mdat left the cursor.
C13_CursorNeverGoesBack ==
    [][/\ pc # "fm_seek" => pos' >= pos
       /\ (pc = "fm_type" /\ pc' = "fm_header") => atom_size - header_size >= 0
       /\ (pc = "nal_sized" /\ pc' = "nal_head") => nal_size >= 0
       /\ (pc = "nal_marked" /\ pc' = "nal_head") => nal_size - 2 >= 0
       /\ pc = "nal_seek" => (offset = pos /\ pos' = pos)]_vars

C13_Witness ==
    /\ pc = "nal_head"
    /\ offset = 32
    /\ consumed >= 6
    /\ pos = offset + consumed
    /\ first_two = <<7, 5>>

\* the scan is over: find_mdat raised, or iter_nals ended
ScanOver == pc \in {"fm_error", "nal_end", "main_done"}

\* C14: on every stream find_mdat eventually returns or raises and iter_nals
\* eventually ends, also with size = 0 and with lengths that point behind the
\* end of the stream: a pass of find_mdat's loop that goes on has read 8
\* bytes, a pass of iter_nals' loop that goes on has read 4 bytes, and a
\* short read ends the loop.
C14_ScanTerminates ==
    /\ <>(pc \in {"fm_error", "fm_returned"})
    /\ <>ScanOver
    /\ [][/\ (pc = "fm_header" /\ pc' # "fm_error") => pos' = pos + 8
          /\ (pc = "fm_header" /\ pc' = "fm_error") => pos' < pos + 8
          /\ (pc = "nal_head" /\ pc' = "nal_sized") => pos' = pos + 4
          /\ (pc \in {"nal_head", "nal_sized", "nal_marked"} /\ pc' = "nal_end")
                => pos' >= Len(stream) \/ ~(size = 0 \/ consumed < size)]_vars

C14_Witness ==
    /\ pc = "nal_end"
    /\ size = 0
    /\ pos > Len(stream)
    /\ consumed > 0

\* number of consecutive 0x00 bytes at the end of d
RECURSIVE TrailingZeros(_)
TrailingZeros(d) ==
    IF d = <<>> \/ d[Len(d)] # 0 THEN 0 ELSE 1 + TrailingZeros(SubSeq(d, 1, Len(d) - 1))

\* the input-tracking rule: the byte d[j] is an emulation prevention byte
StuffedAt(d, j) == d[j] = 3 /\ j >= 3 /\ d[j - 1] = 0 /\ d[j - 2] = 0

\* the first n bytes of d without their emulation prevention bytes
RECURSIVE InputRule(_, _)
InputRule(d, n) ==
    IF n = 0 THEN <<>>
    ELSE IF StuffedAt(d, n) THEN InputRule(d, n - 1)
         ELSE Append(InputRule(d, n - 1), d[n])

\* C15: strip_emulation_prevention_bytes computes the input-tracking rule: at
\* every step zero_count is the number of consecutive 0x00 input bytes that
\* end at the previous input byte, and the output is the processed input
\* without the 0x03 bytes that follow two or more 0x00 input bytes, all other
\* bytes in their order.
C15_InputTrackingRule ==
    pc \in {"strip_loop", "strip_done"} =>
        /\ zero_count = TrailingZeros(SubSeq(data, 1, idx))
        /\ stripped = InputRule(data, idx)
        /\ idx - Len(stripped) = Cardinality({j \in 1..idx : StuffedAt(data, j)})
        /\ pc = "strip_done" => stripped = StripEmulationPreventionBytes(data)

C15_Witness ==
    /\ pc = "strip_done"
    /\ Len(data) >= 6
    /\ SubSeq(data, 1, 6) = <<0, 0, 0, 3, 0, 3>>
    /\ SubSeq(stripped, 1, 5) = <<0, 0, 0, 0, 3>>

====
